---- MODULE Spec2Model ----
(***************************************************************************)
(* A model of serving/ingress/pkg/reconciler/ingress/resources/route.go:   *)
(* MakeRoutes, makeRoute, routeName and hashHost, which turn a Knative     *)
(* Ingress into OpenShift Routes.                                          *)
(*                                                                         *)
(* Go strings are TLA+ strings; a Go map is a function whose domain is the *)
(* set of its keys; a map VALUE (a reference) is an index into heap, 0     *)
(* being the nil map; a pointer that may be nil is a record with a field   *)
(* nil.                                                                    *)
(***************************************************************************)
EXTENDS Integers, Sequences, FiniteSets, TLC

VARIABLES ci, heap, heap0, pc, arg, ret, calls

vars == <<ci, heap, heap0, pc, arg, ret, calls>>

(***************************************************************************)
(* Strings and bytes.                                                      *)
(***************************************************************************)

\* The printable ASCII characters in code order: 32 (space) to 95, and 97 to
\* 126 (the backquote, 96, cannot be written in a TLA+ string).
AsciiTo95 ==
    " !\"#$%&'()*+,-./0123456789:;<=>?@ABCDEFGHIJKLMNOPQRSTUVWXYZ[\\]^_"

AsciiFrom97 == "abcdefghijklmnopqrstuvwxyz{|}~"

RECURSIVE IndexByte(_, _)
\* strings.IndexByte, counted from 1; 0 when c does not occur in s.
IndexByte(s, c) ==
    IF s = "" THEN 0
    ELSE IF Head(s) = c THEN 1
    ELSE LET i == IndexByte(Tail(s), c)
         IN  IF i = 0 THEN 0 ELSE i + 1

\* The byte of a one-character string: []byte(host)[i].
Ord(c) ==
    IF IndexByte(AsciiFrom97, c) > 0 THEN 96 + IndexByte(AsciiFrom97, c)
    ELSE 31 + IndexByte(AsciiTo95, c)

RECURSIVE Bytes(_)
\* []byte(s)
Bytes(s) == IF s = "" THEN << >> ELSE <<Ord(Head(s))>> \o Bytes(Tail(s))

HexDigits == "0123456789abcdef"

\* One byte under the verb %x: two lower-case hex digits.
HexByte(b) ==
    SubSeq(HexDigits, (b \div 16) + 1, (b \div 16) + 1)
        \o SubSeq(HexDigits, (b % 16) + 1, (b % 16) + 1)

RECURSIVE HexBytes(_)
\* fmt.Sprintf("%x", b) of a byte slice or byte array: its bytes in hex, joined.
HexBytes(bs) == IF bs = << >> THEN "" ELSE HexByte(Head(bs)) \o HexBytes(Tail(bs))

\* fmt.Sprintf("%x", s) of a STRING: the hex of the bytes of s, two digits
\* for every character of s.
HexString(s) == HexBytes(Bytes(s))

RECURSIVE SplitFrom(_, _, _, _)
SplitFrom(rest, sep, cur, acc) ==
    IF rest = "" THEN Append(acc, cur)
    ELSE IF Head(rest) = sep THEN SplitFrom(Tail(rest), sep, "", Append(acc, cur))
    ELSE SplitFrom(Tail(rest), sep, cur \o Head(rest), acc)

\* strings.Split(s, sep) for a one-character sep: the pieces between the
\* separators, empty pieces kept; Split("", ".") is <<"">>.
Split(s, sep) == SplitFrom(s, sep, "", << >>)

(***************************************************************************)
(* crypto/sha256.  A uint32 is a pair <<high 16 bits, low 16 bits>>.       *)
(***************************************************************************)

RECURSIVE Xor16(_, _)
Xor16(a, b) ==
    IF a = 0 THEN b
    ELSE IF b = 0 THEN a
    ELSE ((a + b) % 2) + 2 * Xor16(a \div 2, b \div 2)

RECURSIVE And16(_, _)
And16(a, b) ==
    IF a = 0 \/ b = 0 THEN 0
    ELSE ((a % 2) * (b % 2)) + 2 * And16(a \div 2, b \div 2)

Xor32(x, y) == <<Xor16(x[1], y[1]), Xor16(x[2], y[2])>>

And32(x, y) == <<And16(x[1], y[1]), And16(x[2], y[2])>>

Not32(x) == <<65535 - x[1], 65535 - x[2]>>

\* x + y of uint32: wraps modulo 2^32.
Add32(x, y) ==
    LET lo == x[2] + y[2]
        hi == x[1] + y[1] + (lo \div 65536)
    IN  <<hi % 65536, lo % 65536>>

RECURSIVE RotR(_, _)
\* bits.RotateLeft32(x, -n), 0 <= n < 32
RotR(x, n) ==
    IF n = 0 THEN x
    ELSE IF n >= 16 THEN RotR(<<x[2], x[1]>>, n - 16)
    ELSE <<(x[1] \div 2^n) + (x[2] % 2^n) * 2^(16 - n),
           (x[2] \div 2^n) + (x[1] % 2^n) * 2^(16 - n)>>

\* x >> n of uint32, 0 < n < 16
Shr(x, n) ==
    <<x[1] \div 2^n,
      (x[2] \div 2^n) + (x[1] % 2^n) * 2^(16 - n)>>

_K ==
    << <<17034, 12184>>, <<28983, 17553>>, <<46528, 64463>>, <<59829, 56229>>,
       <<14678, 49755>>, <<23025, 4593>>, <<37439, 33444>>, <<43804, 24277>>,
       <<55303, 43672>>, <<4739, 23297>>, <<9265, 34238>>, <<21772, 32195>>,
       <<29374, 23924>>, <<32990, 45566>>, <<39900, 1703>>, <<49563, 61812>>,
       <<58523, 27073>>, <<61374, 18310>>, <<4033, 40390>>, <<9228, 41420>>,
       <<11753, 11375>>, <<19060, 33962>>, <<23728, 43484>>, <<30457, 35034>>,
       <<38974, 20818>>, <<43057, 50797>>, <<45059, 10184>>, <<48985, 32711>>,
       <<50912, 3059>>, <<54695, 37191>>, <<1738, 25425>>, <<5161, 10599>>,
       <<10167, 2693>>, <<11803, 8504>>, <<19756, 28156>>, <<21304, 3347>>,
       <<25866, 29524>>, <<30314, 2747>>, <<33218, 51502>>, <<37490, 11397>>,
       <<41663, 59553>>, <<43034, 26187>>, <<49739, 35696>>, <<51052, 20899>>,
       <<53650, 59417>>, <<54937, 1572>>, <<62478, 13701>>, <<4202, 41072>>,
       <<6564, 49430>>, <<7735, 27656>>, <<10056, 30540>>, <<13488, 48309>>,
       <<14620, 3251>>, <<20184, 43594>>, <<23452, 51791>>, <<26670, 28659>>,
       <<29839, 33518>>, <<30885, 25455>>, <<33992, 30740>>, <<36039, 520>>,
       <<37054, 65530>>, <<42064, 27883>>, <<48889, 41975>>, <<50801, 30962>> >>

\* The initial hash value.
Sha256Init ==
    << <<27145, 58983>>, <<47975, 44677>>, <<15470, 62322>>, <<42319, 62778>>,
       <<20750, 21119>>, <<39685, 26764>>, <<8067, 55723>>, <<23520, 52505>> >>

RECURSIVE Zeros(_)
Zeros(n) == IF n = 0 THEN << >> ELSE <<0>> \o Zeros(n - 1)

\* The message padded to whole 64-byte blocks: 0x80, zeros, and the length
\* in bits as 8 big-endian bytes (messages here are shorter than 2^24 bytes).
Sha256Pad(msg) ==
    LET n == Len(msg)
        z == (119 - (n % 64)) % 64
        bits == 8 * n
    IN  msg \o <<128>> \o Zeros(z) \o <<0, 0, 0, 0>>
            \o <<bits \div 16777216, (bits \div 65536) % 256,
                 (bits \div 256) % 256, bits % 256>>

\* w[i], i < 16: four bytes of the block, big-endian.
Sha256Word(p, i) ==
    <<p[4 * i + 1] * 256 + p[4 * i + 2], p[4 * i + 3] * 256 + p[4 * i + 4]>>

RECURSIVE Sha256Schedule(_)
\* w[i], 16 <= i < 64, appended one by one (w is indexed from 1 here).
Sha256Schedule(w) ==
    IF Len(w) = 64 THEN w
    ELSE LET i  == Len(w) + 1
             v1 == w[i - 2]
             t1 == Xor32(Xor32(RotR(v1, 17), RotR(v1, 19)), Shr(v1, 10))
             v2 == w[i - 15]
             t2 == Xor32(Xor32(RotR(v2, 7), RotR(v2, 18)), Shr(v2, 3))
             wi == Add32(Add32(Add32(t1, w[i - 7]), t2), w[i - 16])
         IN  \* (the test only forces wi to a value before the next step)
             IF wi[1] >= 0 THEN Sha256Schedule(Append(w, wi)) ELSE w

RECURSIVE Sha256Rounds(_, _, _)
\* The 64 rounds over the working variables s = <<a, b, c, d, e, f, g, h>>.
Sha256Rounds(s, w, i) ==
    IF i > 64 THEN s
    ELSE LET a == s[1]
             b == s[2]
             c == s[3]
             e == s[5]
             f == s[6]
             g == s[7]
             t1 == Add32(Add32(Add32(Add32(s[8],
                       Xor32(Xor32(RotR(e, 6), RotR(e, 11)), RotR(e, 25))),
                       Xor32(And32(e, f), And32(Not32(e), g))),
                       _K[i]), w[i])
             t2 == Add32(Xor32(Xor32(RotR(a, 2), RotR(a, 13)), RotR(a, 22)),
                         Xor32(Xor32(And32(a, b), And32(a, c)), And32(b, c)))
             a1 == Add32(t1, t2)
             e1 == Add32(s[4], t1)
         IN  \* (the test only forces a1 and e1 to values before the next round)
             IF a1[1] >= 0 /\ e1[1] >= 0
             THEN Sha256Rounds(<<a1, a, b, c, e1, e, f, g>>, w, i + 1)
             ELSE s

RECURSIVE Sha256Blocks(_, _)
\* block(): every 64-byte block of p folded into the hash value h.
Sha256Blocks(h, p) ==
    IF p = << >> THEN h
    ELSE LET w == Sha256Schedule([i \in 1..16 |-> Sha256Word(p, i - 1)])
             s == Sha256Rounds(h, w, 1)
         IN  Sha256Blocks([k \in 1..8 |-> Add32(h[k], s[k])], SubSeq(p, 65, Len(p)))

RECURSIVE Sha256Digest(_)
\* The hash value as 32 bytes, big-endian word by word.
Sha256Digest(h) ==
    IF h = << >> THEN << >>
    ELSE <<Head(h)[1] \div 256, Head(h)[1] % 256, Head(h)[2] \div 256, Head(h)[2] % 256>>
             \o Sha256Digest(Tail(h))

\* sha256.Sum256(data)
Sum256(data) == Sha256Digest(Sha256Blocks(Sha256Init, Sha256Pad(data)))

(***************************************************************************)
(* Constants of route.go and of the packages it imports.                   *)
(***************************************************************************)

TimeoutAnnotation == "haproxy.router.openshift.io/timeout"

DisableRouteAnnotation == "serving.knative.openshift.io/disableRoute"

KourierHTTPPort == "http2"

\* config.DefaultMaxRevisionTimeoutSeconds of knative.dev/serving
DefaultMaxRevisionTimeoutSeconds == 600

\* fmt.Sprintf("%vs", config.DefaultMaxRevisionTimeoutSeconds)
defaultTimeout == ToString(DefaultMaxRevisionTimeoutSeconds) \o "s"

\* The nil error.
NoErr == "<nil>"

ErrNoValidLoadbalancerDomain ==
    "unable to find Ingress LoadBalancer with DomainInternal set"

IngressVisibilityClusterLocal == "ClusterLocal"

IngressVisibilityExternalIP == "ExternalIP"

\* networking.IngressLabelKey
IngressLabelKey == "networking.internal.knative.dev/ingress"

(***************************************************************************)
(* Values.                                                                 *)
(***************************************************************************)

\* A nil pointer (or nil slice), and a pointer to v.
Nil == [nil |-> TRUE]

Some(v) == [nil |-> FALSE, val |-> v]

\* The element of a one-element set.
The(S) == CHOOSE x \in S : TRUE

\* make(map[string]string)
EmptyMap == [k \in {} |-> ""]

\* m[k] = v
MapSet(m, k, v) == [x \in (DOMAIN m) \cup {k} |-> IF x = k THEN v ELSE m[x]]

\* kmeta.UnionMaps(a, b): a new map; on a key of both, b wins.
UnionMaps(a, b) ==
    [x \in (DOMAIN a) \cup (DOMAIN b) |-> IF x \in DOMAIN b THEN b[x] ELSE a[x]]

(***************************************************************************)
(* routeName and hashHost.                                                 *)
(***************************************************************************)

\* The hosts the model draws from.
HostInputs ==
    {"foo.example.com", "bar.example.com",
     "myksvc.myproject.svc.cluster.local", "foo.com"}

\* fmt.Sprintf("%x", sha256.Sum256([]byte(host))), computed once per host of
\* HostInputs.
Sum256HexOfInputs == [h \in HostInputs |-> HexBytes(Sum256(Bytes(h)))]

Sum256Hex(host) ==
    IF host \in HostInputs THEN Sum256HexOfInputs[host]
    ELSE HexBytes(Sum256(Bytes(host)))

\* [0:6] of the hex digest: a STRING of six hex digits.
hashHost(host) == SubSeq(Sum256Hex(host), 1, 6)

\* The verb %x is applied to the string hashHost returns.
routeName(uid, host) == "route-" \o uid \o "-" \o HexString(hashHost(host))

(***************************************************************************)
(* makeRoute.                                                              *)
(***************************************************************************)

RECURSIVE TrimZeros(_)
\* A string of digits without its trailing zeros (the shortest digits that
\* give the float64 back, for a whole number below 2^53).
TrimZeros(digits) ==
    IF Len(digits) > 1 /\ SubSeq(digits, Len(digits), Len(digits)) = "0"
    THEN TrimZeros(SubSeq(digits, 1, Len(digits) - 1))
    ELSE digits

\* %v of the float64 n, n a whole number: strconv's shortest 'g' format,
\* which writes plain digits for a decimal exponent below 6 and d.ddde+XX
\* from 1000000 on (1000000 -> 1e+06, 2592000 -> 2.592e+06).
FormatFloat(n) ==
    LET digits == ToString(IF n < 0 THEN 0 - n ELSE n)
        exp == Len(digits) - 1
        mant == TrimZeros(digits)
    IN  (IF n < 0 THEN "-" ELSE "") \o
        (IF exp < 6 THEN digits
         ELSE SubSeq(mant, 1, 1)
                  \o (IF Len(mant) > 1 THEN "." \o SubSeq(mant, 2, Len(mant)) ELSE "")
                  \o "e+" \o (IF exp < 10 THEN "0" ELSE "") \o ToString(exp))

\* fmt.Sprintf("%vs", d.Seconds()) for a duration of n whole seconds
\* (durations are whole seconds in this model).
SecondsString(n) == FormatFloat(n) \o "s"

\* A variant of disableRoute that reads the value of the annotation and
\* disables the route only when it is "true".
disableRouteIfTrue(annotations) ==
    /\ DisableRouteAnnotation \in DOMAIN annotations
    /\ annotations[DisableRouteAnnotation] = "true"

\* _, ok := annotations[DisableRouteAnnotation]
disableRoute(annotations) == DisableRouteAnnotation \in DOMAIN annotations

RECURSIVE timeoutsOfPaths(_, _, _)
\* The loop over rule.HTTP.Paths: every path writes the timeout annotation.
timeoutsOfPaths(annotations, paths, i) ==
    IF i > Len(paths) THEN annotations
    ELSE timeoutsOfPaths(
             MapSet(annotations, TimeoutAnnotation,
                    IF ~paths[i].DeprecatedTimeout.nil
                    THEN SecondsString(paths[i].DeprecatedTimeout.val)
                    ELSE defaultTimeout),
             paths, i + 1)

RECURSIVE lbIngressLoopFirstWins(_, _, _)
\* A variant of lbIngressLoop that stops at the first endpoint it accepts.
lbIngressLoopFirstWins(ingress, i, found) ==
    IF i > Len(ingress) THEN found
    ELSE LET parts == Split(ingress[i].DomainInternal, ".")
         IN  IF ingress[i].DomainInternal # "" /\ Len(parts) > 2 /\ parts[3] = "svc"
             THEN [serviceName |-> parts[1], namespace |-> parts[2]]
             ELSE lbIngressLoopFirstWins(ingress, i + 1, found)

RECURSIVE lbIngressLoop(_, _, _)
\* The loop over ci.Status.PublicLoadBalancer.Ingress: every endpoint whose
\* DomainInternal has more than two parts, the third being svc, overwrites
\* serviceName and namespace.
lbIngressLoop(ingress, i, found) ==
    IF i > Len(ingress) THEN found
    ELSE LET parts == Split(ingress[i].DomainInternal, ".")
         IN  IF ingress[i].DomainInternal # "" /\ Len(parts) > 2 /\ parts[3] = "svc"
             THEN lbIngressLoop(ingress, i + 1,
                                [serviceName |-> parts[1], namespace |-> parts[2]])
             ELSE lbIngressLoop(ingress, i + 1, found)

\* A variant of backendOf that falls back on the Kourier service when the
\* ingress has no public load-balancer status.
backendOfDefault(status) ==
    IF status.nil THEN [serviceName |-> "kourier", namespace |-> "knative-serving-ingress"]
    ELSE lbIngressLoop(status.val, 1, [serviceName |-> "", namespace |-> ""])

\* serviceName and namespace after the scan of the status.
backendOf(status) ==
    IF status.nil THEN [serviceName |-> "", namespace |-> ""]
    ELSE lbIngressLoop(status.val, 1, [serviceName |-> "", namespace |-> ""])

\* A variant of noValidDomain with && for ||.
noValidDomainBoth(backend) == backend.serviceName = "" /\ backend.namespace = ""

\* if serviceName == "" || namespace == ""
noValidDomain(backend) == backend.serviceName = "" \/ backend.namespace = ""

\* makeRoute(ci, host, rule) on the heap h of maps.  The result is the
\* returned route (Nil or Some), the returned error and the heap afterwards.
\* A map that makeRoute made and that no returned route holds is dropped.
makeRoute(h, c, host, rule) ==
    LET made == c.Annotations = 0
        a  == IF made THEN Len(h) + 1 ELSE c.Annotations
        h1 == IF made THEN Append(h, EmptyMap) ELSE h
    IN  IF rule.Visibility = IngressVisibilityClusterLocal
        THEN [route |-> Nil, err |-> NoErr, heap |-> h]
        ELSE IF disableRoute(h1[a])
        THEN [route |-> Nil, err |-> NoErr, heap |-> h]
        ELSE LET h2 == IF ~rule.HTTP.nil
                       THEN [h1 EXCEPT ![a] = timeoutsOfPaths(h1[a], rule.HTTP.val.Paths, 1)]
                       ELSE h1
                 labels == UnionMaps(c.Labels, [k \in {IngressLabelKey} |-> c.Name])
                 name == routeName(c.UID, host)
                 backend == backendOf(c.Status.PublicLoadBalancer)
             IN  IF noValidDomain(backend)
                 THEN [route |-> Nil, err |-> ErrNoValidLoadbalancerDomain,
                       heap |-> IF made THEN h ELSE h2]
                 ELSE [route |-> Some(
                           [Name |-> name,
                            Namespace |-> backend.namespace,
                            Labels |-> labels,
                            Annotations |-> a,
                            Host |-> host,
                            TargetPort |-> KourierHTTPPort,
                            To |-> [Kind |-> "Service", Name |-> backend.serviceName,
                                    Weight |-> 100],
                            TLS |-> [Termination |-> "edge",
                                     InsecureEdgeTerminationPolicy |-> "Allow"],
                            WildcardPolicy |-> "None"]),
                       err |-> NoErr,
                       heap |-> h2]

(***************************************************************************)
(* MakeRoutes.                                                             *)
(***************************************************************************)

\* A variant of wantsRoute without the test of the third part.
wantsRouteAnySuffix(host) == Len(Split(host, ".")) > 2

\* len(parts) > 2 && parts[2] != "svc", parts being strings.Split(host, ".")
wantsRoute(host) ==
    LET parts == Split(host, ".")
    IN  Len(parts) > 2 /\ parts[3] # "svc"

\* A variant of returnError that hands back the routes made so far.
returnErrorWithRoutes(routes, err) == [routes |-> Some(routes), err |-> err]

\* return nil, err
returnError(routes, err) == [routes |-> Nil, err |-> err]

\* return routes, nil
returnRoutes(routes) == [routes |-> Some(routes), err |-> NoErr]

\* What MakeRoutes notes of one call of makeRoute: the rule and host it was
\* for, and the route and error that came back.
Call(ri, hi, r) == [rule |-> ri, host |-> hi, route |-> r.route, err |-> r.err]

RECURSIVE MakeRoutesFrom(_, _, _, _)
\* The two loops of MakeRoutes from rule ri and host hi on.  st holds the
\* routes appended so far, the heap, and the calls of makeRoute made so far.
\* (r, the result of makeRoute, is bound as the element of a one-element
\* set, so that it is computed once.)
MakeRoutesFrom(c, ri, hi, st) ==
    IF ri > Len(c.Spec.Rules)
    THEN [ret |-> returnRoutes(st.routes), heap |-> st.heap, calls |-> st.calls]
    ELSE IF c.Spec.Rules[ri].Visibility = IngressVisibilityClusterLocal
    THEN MakeRoutesFrom(c, ri + 1, 1, st)
    ELSE IF hi > Len(c.Spec.Rules[ri].Hosts)
    THEN MakeRoutesFrom(c, ri + 1, 1, st)
    ELSE IF ~wantsRoute(c.Spec.Rules[ri].Hosts[hi])
    THEN MakeRoutesFrom(c, ri, hi + 1, st)
    ELSE The({IF r.err # NoErr
              THEN [ret |-> returnError(st.routes, r.err),
                    heap |-> r.heap, calls |-> Append(st.calls, Call(ri, hi, r))]
              ELSE IF r.route.nil
              THEN MakeRoutesFrom(c, ri, hi + 1,
                       [routes |-> st.routes,
                        heap |-> r.heap, calls |-> Append(st.calls, Call(ri, hi, r))])
              ELSE MakeRoutesFrom(c, ri, hi + 1,
                       [routes |-> Append(st.routes, r.route.val),
                        heap |-> r.heap, calls |-> Append(st.calls, Call(ri, hi, r))]) :
              r \in {makeRoute(st.heap, c, c.Spec.Rules[ri].Hosts[hi], c.Spec.Rules[ri])}})

\* MakeRoutes(ci) on the heap h.
MakeRoutes(h, c) ==
    MakeRoutesFrom(c, 1, 1, [routes |-> << >>, heap |-> h, calls |-> << >>])

(***************************************************************************)
(* The ingresses the model starts from.                                    *)
(***************************************************************************)

\* Rules of one ingress.
MaxRules == 2

\* Hosts of one ingress, over all its rules.
MaxHosts == 2

\* HTTP paths of one ingress, over all its rules.
MaxPaths == 2

\* Endpoints of the public load-balancer status.
MaxEndpoints == 2

RECURSIVE SeqsUpTo(_, _)
\* The sequences over S of length at most n.
SeqsUpTo(S, n) ==
    IF n = 0 THEN {<< >>}
    ELSE LET shorter == SeqsUpTo(S, n - 1)
         IN  shorter \cup {Append(q, x) : q \in {u \in shorter : Len(u) = n - 1}, x \in S}

\* DomainInternal of an endpoint: unset, two service names, a service name
\* whose first part is empty, and a name that is not a service name.
DomainInputs ==
    {"", "kourier.knative-serving-ingress.svc.cluster.local",
     "istio-ingressgateway.istio-system.svc.cluster.local",
     ".knative-serving-ingress.svc.cluster.local", "lb.example.com"}

\* DeprecatedTimeout of a path: nil, or whole seconds.
TimeoutInputs == {Nil, Some(5), Some(600), Some(2592000)}

\* rule.HTTP: nil, or paths with these timeouts.
NoHTTP == Nil

HTTPOf(timeouts) ==
    Some([Paths |-> [i \in 1..Len(timeouts) |-> [DeprecatedTimeout |-> timeouts[i]]]])

\* ci.Status.PublicLoadBalancer: nil, or endpoints with these domains.
LoadBalancerOf(domains) ==
    Some([i \in 1..Len(domains) |-> [DomainInternal |-> domains[i]]])

KourierStatus == LoadBalancerOf(<<"kourier.knative-serving-ingress.svc.cluster.local">>)

\* The annotation maps an ingress comes with; none is the nil map.
DisableAnnotations(v) == [k \in {DisableRouteAnnotation} |-> v]

OtherAnnotations == [k \in {"networking.knative.dev/ingress.class"} |-> "kourier"]

OldTimeoutAnnotations == [k \in {TimeoutAnnotation} |-> "30s"]

\* An ingress and the heap that holds its annotation map (maps: the
\* sequence of maps on the heap, empty for the nil map).
Ingress(uid, maps, rules, status) ==
    [ci |-> [UID |-> uid,
             Name |-> "hello",
             Labels |-> [k \in {"app"} |-> "hello"],
             Annotations |-> Len(maps),
             Spec |-> [Rules |-> rules],
             Status |-> [PublicLoadBalancer |-> status]],
     heap |-> maps]

RECURSIVE RulesOverHosts(_, _)
\* At most n rules without HTTP, of either visibility, with at most hosts
\* hosts of HostInputs altogether.
RulesOverHosts(n, hosts) ==
    {<< >>} \cup
    (IF n = 0 THEN {}
     ELSE UNION {
              {<<[Visibility |-> v, Hosts |-> hs, HTTP |-> NoHTTP]>> \o rest :
                   v \in {IngressVisibilityExternalIP, IngressVisibilityClusterLocal},
                   rest \in RulesOverHosts(n - 1, hosts - Len(hs))} :
              hs \in SeqsUpTo(HostInputs, hosts)})

RECURSIVE RulesOverPaths(_, _)
\* At most n external rules of one host each (foo.example.com and
\* bar.example.com in turn), with at most paths HTTP paths altogether.
RulesOverPaths(n, paths) ==
    {<< >>} \cup
    (IF n = 0 THEN {}
     ELSE UNION {
              {<<[Visibility |-> IngressVisibilityExternalIP,
                  Hosts |-> <<IF n % 2 = 0 THEN "bar.example.com" ELSE "foo.example.com">>,
                  HTTP |-> http]>> \o rest :
                   rest \in RulesOverPaths(n - 1,
                                paths - (IF http.nil THEN 0 ELSE Len(http.val.Paths)))} :
              http \in {NoHTTP} \cup {HTTPOf(ts) : ts \in SeqsUpTo(TimeoutInputs, paths)}})

\* The call starts from the ingress in.ci on the heap in.heap.
Start(in) == ci = in.ci /\ heap = in.heap /\ heap0 = in.heap

\* The ingresses, each with the heap that holds its annotation map:
\*  - ingresses that differ in their rules' hosts and visibility,
\*  - ingresses that differ in their rules' HTTP paths and timeouts,
\*  - ingresses of one rule and one host that differ in their load-balancer
\*    status and owner.
Inputs ==
    \/ \E maps \in {<< >>, <<OtherAnnotations>>, <<DisableAnnotations("false")>>} :
         \E rules \in RulesOverHosts(MaxRules, MaxHosts) :
           \E status \in {Nil, KourierStatus} :
             Start(Ingress("abc123", maps, rules, status))
    \/ \E maps \in {<< >>, <<OtherAnnotations>>, <<OldTimeoutAnnotations>>} :
         \E rules \in RulesOverPaths(MaxRules, MaxPaths) :
           \E status \in {Nil, KourierStatus} :
             Start(Ingress("abc123", maps, rules, status))
    \/ \E uid \in {"abc123", "0f"} :
         \E maps \in {<< >>, <<EmptyMap>>, <<DisableAnnotations("")>>,
                        <<DisableAnnotations("true")>>} :
           \E v \in {IngressVisibilityExternalIP, IngressVisibilityClusterLocal} :
             \E http \in {NoHTTP, HTTPOf(<<Some(600)>>)} :
               \E status \in {Nil} \cup {LoadBalancerOf(ds) :
                                           ds \in SeqsUpTo(DomainInputs, MaxEndpoints)} :
                 Start(Ingress(uid, maps,
                              <<[Visibility |-> v, Hosts |-> <<"foo.example.com">>,
                                 HTTP |-> http]>>,
                              status))

Init ==
    /\ Inputs
    /\ pc = "ready"
    /\ arg = [rule |-> 0, host |-> 0]
    /\ ret = [err |-> NoErr]
    /\ calls = << >>

\* routes, err := MakeRoutes(ci)
CallMakeRoutes ==
    /\ pc = "ready"
    /\ \E r \in {MakeRoutes(heap, ci)} :
           /\ heap' = r.heap
           /\ ret' = r.ret
           /\ calls' = r.calls
    /\ pc' = "MakeRoutes"
    /\ UNCHANGED <<ci, heap0, arg>>

\* route, err := makeRoute(ci, host, rule), for a rule of ci and a host of it
CallMakeRoute ==
    /\ pc = "ready"
    /\ \E ri \in DOMAIN ci.Spec.Rules :
         \E hi \in DOMAIN ci.Spec.Rules[ri].Hosts :
           \E r \in {makeRoute(heap, ci, ci.Spec.Rules[ri].Hosts[hi], ci.Spec.Rules[ri])} :
               /\ heap' = r.heap
               /\ ret' = [route |-> r.route, err |-> r.err]
               /\ calls' = <<Call(ri, hi, r)>>
               /\ arg' = [rule |-> ri, host |-> hi]
    /\ pc' = "makeRoute"
    /\ UNCHANGED <<ci, heap0>>

Next == CallMakeRoutes \/ CallMakeRoute

Spec == Init /\ [][Next]_vars

(***************************************************************************)
(* What the properties speak of.  These definitions read the ingress and   *)
(* the record of the call; none of them uses the operators of makeRoute    *)
(* and MakeRoutes above.                                                   *)
(***************************************************************************)

\* The parts of the dotted names the ingresses are made of, and of any other.
SegmentsOfInputs == [s \in HostInputs \cup DomainInputs |-> Split(s, ".")]

Segments(s) == IF s \in DOMAIN SegmentsOfInputs THEN SegmentsOfInputs[s] ELSE Split(s, ".")

\* The annotations the ingress had before the call.
AnnotationsBefore == IF ci.Annotations = 0 THEN EmptyMap ELSE heap0[ci.Annotations]

\* The ingress carries the disable-route annotation.
DisableMarked == DisableRouteAnnotation \in DOMAIN AnnotationsBefore

\* The endpoints of the public load-balancer status, none if it is nil.
Endpoints ==
    IF ci.Status.PublicLoadBalancer.nil THEN << >> ELSE ci.Status.PublicLoadBalancer.val

\* An internal domain of more than two segments, the third being svc.
IsServiceDomain(d) == d # "" /\ Len(Segments(d)) > 2 /\ Segments(d)[3] = "svc"

\* Its first and second segments are both non-empty.
NamesBoth(d) == Segments(d)[1] # "" /\ Segments(d)[2] # ""

ServiceEndpoints == {i \in DOMAIN Endpoints : IsServiceDomain(Endpoints[i].DomainInternal)}

\* The internal domain of the last service endpoint, in status order.
LastServiceDomain ==
    Endpoints[CHOOSE i \in ServiceEndpoints : \A j \in ServiceEndpoints : j <= i].DomainInternal

BackendResolvable == ServiceEndpoints # {} /\ NamesBoth(LastServiceDomain)

\* No endpoint carries a non-empty internal domain.
NoDomain == \A i \in DOMAIN Endpoints : Endpoints[i].DomainInternal = ""

RECURSIVE PositionsFrom(_)
\* Every (rule, host) of the ingress from rule ri on, in rule and host order.
PositionsFrom(ri) ==
    IF ri > Len(ci.Spec.Rules) THEN << >>
    ELSE [hi \in 1..Len(ci.Spec.Rules[ri].Hosts) |-> [rule |-> ri, host |-> hi]]
             \o PositionsFrom(ri + 1)

HostAt(p) == ci.Spec.Rules[p.rule].Hosts[p.host]

\* The positions that are to get a route: the rule is not cluster-local and
\* the host has more than two segments, the third not being svc.
QualifyingPositions ==
    SelectSeq(PositionsFrom(1),
              LAMBDA p : /\ ci.Spec.Rules[p.rule].Visibility # IngressVisibilityClusterLocal
                         /\ Len(Segments(HostAt(p))) > 2
                         /\ Segments(HostAt(p))[3] # "svc")

QualifyingHosts == [i \in DOMAIN QualifyingPositions |-> HostAt(QualifyingPositions[i])]

\* The positions makeRoute was called for, and the calls that made a route.
CallPositions == [i \in DOMAIN calls |-> [rule |-> calls[i].rule, host |-> calls[i].host]]

MadeCalls == SelectSeq(calls, LAMBDA c : ~c.route.nil)

\* The routes the finished call returned.
Returned ==
    IF pc = "MakeRoutes" THEN (IF ret.routes.nil THEN << >> ELSE ret.routes.val)
    ELSE IF pc = "makeRoute" THEN (IF ret.route.nil THEN << >> ELSE <<ret.route.val>>)
    ELSE << >>

\* After makeRoute: one of its two skip conditions applied to the call.
Skipped ==
    \/ ci.Spec.Rules[arg.rule].Visibility = IngressVisibilityClusterLocal
    \/ DisableMarked

\* The timeout a path asks for, as the annotation writes it.
TimeoutString(path) ==
    IF path.DeprecatedTimeout.nil THEN defaultTimeout
    ELSE ToString(path.DeprecatedTimeout.val) \o "s"

(***************************************************************************)
(* Properties.                                                             *)
(***************************************************************************)

\* C1: MakeRoutes is fail-fast and all-or-nothing.  A call of makeRoute that
\* fails is the last call made and its error is the one returned; an error
\* comes with no list (nil); without an error the list is there and is
\* complete: makeRoute was called for every qualifying host, and the list
\* holds, in order, the routes these calls made.
C1_FailFastAllOrNothing ==
    pc = "MakeRoutes" =>
        /\ \A i \in DOMAIN calls :
               calls[i].err # NoErr => i = Len(calls) /\ ret.err = calls[i].err
        /\ ret.err # NoErr =>
               /\ ret.routes.nil
               /\ calls # << >>
               /\ calls[Len(calls)].err = ret.err
        /\ ret.err = NoErr =>
               /\ ~ret.routes.nil
               /\ CallPositions = QualifyingPositions
               /\ ret.routes.val = [i \in DOMAIN MadeCalls |-> MadeCalls[i].route.val]

\* MakeRoutes failed and left qualifying hosts unprocessed.
C1_Witness ==
    /\ pc = "MakeRoutes"
    /\ ret.err # NoErr
    /\ ret.routes.nil
    /\ Len(calls) < Len(QualifyingPositions)

\* C2: for an ingress without the disable-route annotation and with a
\* resolvable backend, the hosts of the routes MakeRoutes returns are, in
\* rule order and then host order, the hosts of the rules that are not
\* cluster-local which have more than two segments, the third not being svc.
C2_HostsInOrder ==
    pc = "MakeRoutes" /\ ~DisableMarked /\ BackendResolvable =>
        /\ ret.err = NoErr
        /\ ~ret.routes.nil
        /\ [i \in DOMAIN ret.routes.val |-> ret.routes.val[i].Host] = QualifyingHosts

\* MakeRoutes returned routes and left out a host.
C2_Witness ==
    /\ pc = "MakeRoutes" /\ ~DisableMarked /\ BackendResolvable
    /\ QualifyingHosts # << >>
    /\ Len(QualifyingPositions) < Len(PositionsFrom(1))
    /\ Len(Returned) = Len(QualifyingPositions)

\* C3: the list MakeRoutes returns holds at most one route per host: no two
\* of its routes have the same host or the same name.
C3_OneRoutePerHost ==
    pc = "MakeRoutes" =>
        \A i, j \in DOMAIN Returned :
            i < j => /\ Returned[i].Host # Returned[j].Host
                     /\ Returned[i].Name # Returned[j].Name

\* C4: MakeRoutes and makeRoute leave their input as it was: after a call,
\* whatever it returned, the annotation map of the ingress has the keys and
\* values it had before, and the annotations of a returned route are not the
\* map of the ingress itself.  (No action changes ci, which holds the
\* labels, rules and status.)
C4_InputUntouched ==
    pc # "ready" =>
        /\ ci.Annotations # 0 => heap[ci.Annotations] = heap0[ci.Annotations]
        /\ \A i \in DOMAIN Returned : Returned[i].Annotations # ci.Annotations

\* C5: the name of a route is "route-" + ownerID + "-" + the first 6
\* characters of the hex-encoded SHA-256 digest of its host.
C5_RouteNameSuffix ==
    \A i \in DOMAIN Returned :
        Returned[i].Name =
            "route-" \o ci.UID \o "-" \o SubSeq(Sum256Hex(Returned[i].Host), 1, 6)

\* C6, as the specification states it: when no endpoint carries a non-empty
\* internal domain, makeRoute returns ErrNoValidLoadbalancerDomain and no
\* route, for every host and rule.
C6_ErrorForEveryHostAndRule ==
    pc = "makeRoute" /\ NoDomain =>
        ret.route.nil /\ ret.err = ErrNoValidLoadbalancerDomain

\* C6, amended: when no endpoint carries a non-empty internal domain,
\* makeRoute returns no route; it returns ErrNoValidLoadbalancerDomain for
\* every host and rule to which no skip condition applies, and the skip
\* signal (no error) where the rule is cluster-local or the ingress carries
\* the disable-route annotation.
C6_ErrorUnlessSkipped ==
    pc = "makeRoute" /\ NoDomain =>
        /\ ret.route.nil
        /\ ret.err = IF Skipped THEN NoErr ELSE ErrNoValidLoadbalancerDomain

\* makeRoute failed on a status whose endpoints carry no internal domain.
C6_Witness ==
    /\ pc = "makeRoute" /\ NoDomain /\ ~Skipped
    /\ Endpoints # << >>
    /\ ret.err = ErrNoValidLoadbalancerDomain

\* C7: when the annotations of the ingress contain the disable-route key,
\* whatever its value, makeRoute returns the skip signal (nil route, nil
\* error) for every host and rule, and MakeRoutes an empty list and no error.
C7_DisableRouteSkips ==
    DisableMarked =>
        /\ pc = "makeRoute" => ret.route.nil /\ ret.err = NoErr
        /\ pc = "MakeRoutes" => ret.err = NoErr /\ ~ret.routes.nil /\ ret.routes.val = << >>

\* makeRoute skipped an external rule of an ingress whose disable-route
\* annotation is not "true" and whose backend resolves.
C7_Witness ==
    /\ pc = "makeRoute" /\ DisableMarked
    /\ AnnotationsBefore[DisableRouteAnnotation] # "true"
    /\ ci.Spec.Rules[arg.rule].Visibility = IngressVisibilityExternalIP
    /\ BackendResolvable
    /\ ret.route.nil /\ ret.err = NoErr

\* C8: the backend service name and the namespace of a returned route are
\* the first and second segments of the last endpoint, in status order,
\* whose internal domain is non-empty, has more than two segments and has
\* svc as its third.
C8_LastEndpointWins ==
    \A i \in DOMAIN Returned :
        /\ ServiceEndpoints # {}
        /\ Returned[i].To.Name = Segments(LastServiceDomain)[1]
        /\ Returned[i].Namespace = Segments(LastServiceDomain)[2]

\* makeRoute returned a route for a status of two service endpoints that
\* name different services.
C8_Witness ==
    /\ pc = "makeRoute" /\ ~ret.route.nil
    /\ \E i, j \in ServiceEndpoints :
           /\ i < j
           /\ Segments(Endpoints[i].DomainInternal)[1]
                  # Segments(Endpoints[j].DomainInternal)[1]

\* C9, as the specification states it: when neither skip condition
\* applies and at least one endpoint has an internal domain of more than two
\* segments with svc as third and non-empty first and second segments,
\* makeRoute returns a route, whatever the other endpoints contain.
C9_AnyGoodEndpointSuffices ==
    /\ pc = "makeRoute" /\ ~Skipped
    /\ \E i \in ServiceEndpoints : NamesBoth(Endpoints[i].DomainInternal)
    => ~ret.route.nil /\ ret.err = NoErr

\* C9, amended: when neither skip condition applies, makeRoute returns a
\* route if the LAST endpoint whose internal domain has more than two
\* segments with svc as third has non-empty first and second segments, and
\* fails with ErrNoValidLoadbalancerDomain otherwise, whatever the endpoints
\* before it contain.
C9_LastServiceEndpointDecides ==
    pc = "makeRoute" /\ ~Skipped =>
        IF BackendResolvable
        THEN ~ret.route.nil /\ ret.err = NoErr
        ELSE ret.route.nil /\ ret.err = ErrNoValidLoadbalancerDomain

\* makeRoute failed although an endpoint before the last service endpoint
\* names both a service and a namespace.
C9_Witness ==
    /\ pc = "makeRoute" /\ ~Skipped
    /\ \E i \in ServiceEndpoints : NamesBoth(Endpoints[i].DomainInternal)
    /\ ~BackendResolvable
    /\ ret.err = ErrNoValidLoadbalancerDomain

\* C10: after MakeRoutes has returned, the timeout annotation of every
\* returned route whose own rule declares at least one HTTP path is the
\* value of the last path of that rule: "<n>s" for a timeout of n seconds,
\* the default timeout string for none.  (The k-th returned route comes from
\* the k-th call of makeRoute that made a route.)
C10_TimeoutOfOwnRule ==
    pc = "MakeRoutes" /\ ~ret.routes.nil =>
        \A k \in DOMAIN ret.routes.val :
            LET http == ci.Spec.Rules[MadeCalls[k].rule].HTTP
                annotations == heap[ret.routes.val[k].Annotations]
            IN  ~http.nil /\ http.val.Paths # << >> =>
                    /\ TimeoutAnnotation \in DOMAIN annotations
                    /\ annotations[TimeoutAnnotation]
                           = TimeoutString(http.val.Paths[Len(http.val.Paths)])

====
